---- MODULE Spec2Model ----
(***************************************************************************)
(* The ERC-6909 multi-token ledger (Erc6909) and its supply extension      *)
(* (Erc6909Supply), as implemented in contracts/src/token/erc6909.         *)
(*                                                                         *)
(* Every Rust method is an operator from the contract storage `self`       *)
(* (and the caller, msg::sender()) to a record [self, res]: the storage    *)
(* as the method left it and the value it returned.  One action per        *)
(* externally callable method applies the operator to the current storage  *)
(* and commits the result the way the host does: a call that returns Err   *)
(* or panics reverts every write and every log of the invocation.          *)
(***************************************************************************)
EXTENDS Integers, Sequences, FiniteSets, TLC

\* ---- bounds of the model ------------------------------------------------
NumAccounts == 2
NumIds == 2
U256_MAX == 2
MaxBatch == 2
MaxSteps == 2
MaxCalls == 4

\* ---- primitive types ------------------------------------------------------
ZERO == 0
Account == 1..NumAccounts
Address == {ZERO} \cup Account
TokenId == 1..NumIds
U256 == 0..U256_MAX

SeqsUpTo(S, n) == UNION {[1..k -> S] : k \in 0..n}

\* ---- errors and events ----------------------------------------------------
InsufficientBalance(sender, balance, needed, id) ==
    [tag |-> "InsufficientBalance", sender |-> sender, balance |-> balance,
     needed |-> needed, id |-> id]

InsufficientAllowance(spender, allowance, needed, id) ==
    [tag |-> "InsufficientAllowance", spender |-> spender,
     allowance |-> allowance, needed |-> needed, id |-> id]

InvalidApprover(approver) == [tag |-> "InvalidApprover", approver |-> approver]

InvalidSender(sender) == [tag |-> "InvalidSender", sender |-> sender]

InvalidSpender(spender) == [tag |-> "InvalidSpender", spender |-> spender]

InvalidReceiver(receiver) == [tag |-> "InvalidReceiver", receiver |-> receiver]

InvalidArrayLength(ids_length, values_length) ==
    [tag |-> "InvalidArrayLength", ids_length |-> ids_length,
     values_length |-> values_length]

\* event Transfer: declared by the ledger, logged by none of its methods.
Transfer_event(caller, sender, receiver, id, amount) ==
    [event |-> "Transfer", caller |-> caller, sender |-> sender,
     receiver |-> receiver, id |-> id, amount |-> amount]

TransferSingle(caller, from, to, id, amount) ==
    [event |-> "TransferSingle", caller |-> caller, from |-> from, to |-> to,
     id |-> id, amount |-> amount]

TransferBatch(caller, from, to, ids, amounts) ==
    [event |-> "TransferBatch", caller |-> caller, from |-> from, to |-> to,
     ids |-> ids, amounts |-> amounts]

Approval(owner, spender, id, amount) ==
    [event |-> "Approval", owner |-> owner, spender |-> spender, id |-> id,
     amount |-> amount]

OperatorSet(owner, spender, approved) ==
    [event |-> "OperatorSet", owner |-> owner, spender |-> spender,
     approved |-> approved]

\* ---- results of a method --------------------------------------------------
\* Ok(()) and Ok(true)
OkUnit(self) == [self |-> self, res |-> [tag |-> "Ok"]]

OkTrue(self) == [self |-> self, res |-> [tag |-> "Ok", value |-> TRUE]]

\* Err(e): the storage is as the method left it when it returned.
Err(self, e) == [self |-> self, res |-> e]

\* panic!(msg)
Panic(self, msg) == [self |-> self, res |-> [tag |-> "Panic", msg |-> msg]]

IsOk(r) == r.res.tag = "Ok"

\* evm::log(event)
Log(self, e) == [self EXCEPT !.log = Append(@, e)]

\* ---- storage arithmetic (utils::math::storage) ----------------------------
\* add_assign_checked: TRUE when old + delta does not fit the slot.
AddOverflows(old, delta) == old + delta > U256_MAX

\* sub_assign_unchecked: wraps when delta > old.
SubAssignUnchecked(old, delta) == (old + (U256_MAX + 1) - delta) % (U256_MAX + 1)

\* ---- interface identifiers (FixedBytes<4>, most significant byte first) ----
\* The exclusive or of two bytes, bit by bit.
RECURSIVE BitXor(_, _)
BitXor(a, b) ==
    IF a = 0 /\ b = 0 THEN 0
    ELSE (((a % 2) + (b % 2)) % 2) + (2 * BitXor(a \div 2, b \div 2))

Xor4(x, y) == [k \in 1..4 |-> BitXor(x[k], y[k])]

\* The function selectors: the first four bytes of keccak-256 of the Solidity
\* signature of each method of the trait.
Selector_transfer == <<9, 91, 205, 182>>

Selector_transferFrom == <<254, 153, 4, 154>>

Selector_approve == <<66, 106, 132, 147>>

Selector_setOperator == <<85, 138, 114, 151>>

Selector_balanceOf == <<0, 253, 213, 142>>

Selector_allowance == <<89, 138, 249, 231>>

Selector_isOperator == <<182, 54, 60, 242>>

Selector_totalSupply == <<189, 133, 176, 57>>

Selector_supportsInterface == <<1, 255, 201, 167>>

\* #[interface_id]: the exclusive or of the selectors of the trait's methods.
RECURSIVE interface_id(_)
interface_id(selectors) ==
    IF selectors = <<>> THEN <<0, 0, 0, 0>>
    ELSE Xor4(Head(selectors), interface_id(Tail(selectors)))

\* Mutant: is_operator is left out of the trait.
IErc6909_interface_id_NoIsOperator ==
    interface_id(<<Selector_transfer, Selector_transferFrom, Selector_approve,
                   Selector_setOperator, Selector_balanceOf, Selector_allowance>>)

IErc6909_interface_id ==
    interface_id(<<Selector_transfer, Selector_transferFrom, Selector_approve,
                   Selector_setOperator, Selector_balanceOf, Selector_allowance,
                   Selector_isOperator>>)

IErc6909Supply_interface_id == interface_id(<<Selector_totalSupply>>)

IErc165_interface_id == interface_id(<<Selector_supportsInterface>>)

\* ---- Erc6909 --------------------------------------------------------------
Erc6909_balance_of(self, owner, id) == self.balances[owner][id]

Erc6909_allowance(self, owner, spender, id) == self.allowances[owner][spender][id]

\* Mutant: every address is an operator of itself.
Erc6909_is_operator_SelfIsOperator(self, owner, spender) ==
    owner = spender \/ self.operator_approvals[owner][spender]

Erc6909_is_operator(self, owner, spender) == self.operator_approvals[owner][spender]

\* Mutant: the error reports the two lengths in each other's field.
Erc6909_require_equal_arrays_length_Swapped(self, ids, values) ==
    IF Len(ids) # Len(values)
    THEN Err(self, InvalidArrayLength(Len(values), Len(ids)))
    ELSE OkUnit(self)

Erc6909_supports_interface(self, id) ==
    IErc6909_interface_id = id \/ IErc165_interface_id = id

Erc6909_require_equal_arrays_length(self, ids, values) ==
    IF Len(ids) # Len(values)
    THEN Err(self, InvalidArrayLength(Len(ids), Len(values)))
    ELSE OkUnit(self)

\* Mutant: the credit is applied before the debit.
Erc6909__do_update_CreditFirst(self, from, to, id, amount) ==
    LET credit ==
            IF to # ZERO
            THEN IF AddOverflows(self.balances[to][id], amount)
                 THEN Panic(self, "should not exceed U256::MAX for balances")
                 ELSE OkUnit([self EXCEPT !.balances[to][id] = @ + amount])
            ELSE OkUnit(self)
    IN IF ~IsOk(credit) THEN credit
       ELSE IF from # ZERO
            THEN LET from_balance == Erc6909_balance_of(credit.self, from, id)
                 IN IF from_balance < amount
                    THEN Err(credit.self, InsufficientBalance(from, from_balance, amount, id))
                    ELSE OkUnit([credit.self EXCEPT !.balances[from][id] =
                                     SubAssignUnchecked(@, amount)])
            ELSE credit

\* Mutant: the credit leg is not guarded by `!to.is_zero()`.
Erc6909__do_update_CreditsZero(self, from, to, id, amount) ==
    LET debit ==
            IF from # ZERO
            THEN LET from_balance == Erc6909_balance_of(self, from, id)
                 IN IF from_balance < amount
                    THEN Err(self, InsufficientBalance(from, from_balance, amount, id))
                    ELSE OkUnit([self EXCEPT !.balances[from][id] =
                                     SubAssignUnchecked(@, amount)])
            ELSE OkUnit(self)
    IN IF ~IsOk(debit) THEN debit
       ELSE IF AddOverflows(debit.self.balances[to][id], amount)
            THEN Panic(debit.self, "should not exceed U256::MAX for balances")
            ELSE OkUnit([debit.self EXCEPT !.balances[to][id] = @ + amount])

\* Mutant: the sender is checked but never debited.
Erc6909__do_update_NoDebit(self, from, to, id, amount) ==
    LET debit ==
            IF from # ZERO
            THEN LET from_balance == Erc6909_balance_of(self, from, id)
                 IN IF from_balance < amount
                    THEN Err(self, InsufficientBalance(from, from_balance, amount, id))
                    ELSE OkUnit(self)
            ELSE OkUnit(self)
    IN IF ~IsOk(debit) THEN debit
       ELSE IF to # ZERO
            THEN IF AddOverflows(debit.self.balances[to][id], amount)
                 THEN Panic(debit.self, "should not exceed U256::MAX for balances")
                 ELSE OkUnit([debit.self EXCEPT !.balances[to][id] = @ + amount])
            ELSE debit

\* Mutant: InsufficientBalance reports the balance in `needed`.
Erc6909__do_update_WrongNeeded(self, from, to, id, amount) ==
    LET debit ==
            IF from # ZERO
            THEN LET from_balance == Erc6909_balance_of(self, from, id)
                 IN IF from_balance < amount
                    THEN Err(self, InsufficientBalance(from, from_balance,
                                                       from_balance, id))
                    ELSE OkUnit([self EXCEPT !.balances[from][id] =
                                     SubAssignUnchecked(@, amount)])
            ELSE OkUnit(self)
    IN IF ~IsOk(debit) THEN debit
       ELSE IF to # ZERO
            THEN IF AddOverflows(debit.self.balances[to][id], amount)
                 THEN Panic(debit.self, "should not exceed U256::MAX for balances")
                 ELSE OkUnit([debit.self EXCEPT !.balances[to][id] = @ + amount])
            ELSE debit

Erc6909__do_update(self, from, to, id, amount) ==
    LET debit ==
            IF from # ZERO
            THEN LET from_balance == Erc6909_balance_of(self, from, id)
                 IN IF from_balance < amount
                    THEN Err(self, InsufficientBalance(from, from_balance, amount, id))
                    ELSE OkUnit([self EXCEPT !.balances[from][id] =
                                     SubAssignUnchecked(@, amount)])
            ELSE OkUnit(self)
    IN IF ~IsOk(debit) THEN debit
       ELSE IF to # ZERO
            THEN IF AddOverflows(debit.self.balances[to][id], amount)
                 THEN Panic(debit.self, "should not exceed U256::MAX for balances")
                 ELSE OkUnit([debit.self EXCEPT !.balances[to][id] = @ + amount])
            ELSE debit

\* Mutant: the pairs are processed from the last to the first.
RECURSIVE Erc6909__update_loop_Reversed(_, _, _, _, _, _)
Erc6909__update_loop_Reversed(self, from, to, ids, amounts, i) ==
    IF i > Len(ids) \/ i > Len(amounts) THEN OkUnit(self)
    ELSE LET j == Len(ids) - i + 1
             r == Erc6909__do_update(self, from, to, ids[j], amounts[j])
         IN IF ~IsOk(r) THEN r
            ELSE Erc6909__update_loop_Reversed(r.self, from, to, ids, amounts, i + 1)

\* Mutant: a pair whose _do_update fails is skipped, the loop goes on.
RECURSIVE Erc6909__update_loop_SkipsFailedPair(_, _, _, _, _, _)
Erc6909__update_loop_SkipsFailedPair(self, from, to, ids, amounts, i) ==
    IF i > Len(ids) \/ i > Len(amounts) THEN OkUnit(self)
    ELSE LET r == Erc6909__do_update(self, from, to, ids[i], amounts[i])
         IN Erc6909__update_loop_SkipsFailedPair(IF IsOk(r) THEN r.self ELSE self,
                                                 from, to, ids, amounts, i + 1)

\* for (&token_id, &amount) in ids.iter().zip(amounts.iter()) { _do_update(..)? }
RECURSIVE Erc6909__update_loop(_, _, _, _, _, _)
Erc6909__update_loop(self, from, to, ids, amounts, i) ==
    IF i > Len(ids) \/ i > Len(amounts) THEN OkUnit(self)
    ELSE LET r == Erc6909__do_update(self, from, to, ids[i], amounts[i])
         IN IF ~IsOk(r) THEN r
            ELSE Erc6909__update_loop(r.self, from, to, ids, amounts, i + 1)

\* Mutant: TransferBatch is emitted whatever the length.
Erc6909__update_AlwaysBatch(self, caller, from, to, ids, amounts) ==
    LET chk == Erc6909_require_equal_arrays_length(self, ids, amounts)
    IN IF ~IsOk(chk) THEN chk
       ELSE LET r == Erc6909__update_loop(self, from, to, ids, amounts, 1)
            IN IF ~IsOk(r) THEN r
               ELSE OkUnit(Log(r.self, TransferBatch(caller, from, to, ids, amounts)))

\* Mutant: the event's caller field is `from`, not msg::sender().
Erc6909__update_CallerIsFrom(self, caller, from, to, ids, amounts) ==
    LET chk == Erc6909_require_equal_arrays_length(self, ids, amounts)
    IN IF ~IsOk(chk) THEN chk
       ELSE LET r == Erc6909__update_loop(self, from, to, ids, amounts, 1)
            IN IF ~IsOk(r) THEN r
               ELSE IF Len(ids) = 1
                    THEN OkUnit(Log(r.self, TransferSingle(from, from, to,
                                                            ids[1], amounts[1])))
                    ELSE OkUnit(Log(r.self, TransferBatch(from, from, to,
                                                           ids, amounts)))

Erc6909__update(self, caller, from, to, ids, amounts) ==
    LET chk == Erc6909_require_equal_arrays_length(self, ids, amounts)
    IN IF ~IsOk(chk) THEN chk
       ELSE LET r == Erc6909__update_loop(self, from, to, ids, amounts, 1)
            IN IF ~IsOk(r) THEN r
               ELSE IF Len(ids) = 1
                    THEN OkUnit(Log(r.self, TransferSingle(caller, from, to,
                                                            ids[1], amounts[1])))
                    ELSE OkUnit(Log(r.self, TransferBatch(caller, from, to,
                                                           ids, amounts)))

\* Mutant: the receiver is tested before the sender.
Erc6909__transfer_ReceiverFirst(self, caller, from, to, id, amount) ==
    IF to = ZERO THEN Err(self, InvalidReceiver(to))
    ELSE IF from = ZERO THEN Err(self, InvalidSender(from))
    ELSE Erc6909__update(self, caller, from, to, <<id>>, <<amount>>)

Erc6909__transfer(self, caller, from, to, id, amount) ==
    IF from = ZERO THEN Err(self, InvalidSender(from))
    ELSE IF to = ZERO THEN Err(self, InvalidReceiver(to))
    ELSE Erc6909__update(self, caller, from, to, <<id>>, <<amount>>)

\* Mutant: the allowance is set for every token id.
Erc6909__approve_AllIds(self, owner, spender, id, amount) ==
    IF owner = ZERO THEN Err(self, InvalidApprover(owner))
    ELSE IF spender = ZERO THEN Err(self, InvalidSpender(spender))
    ELSE OkUnit(Log([self EXCEPT !.allowances[owner][spender] =
                         [i \in TokenId |-> amount]],
                    Approval(owner, spender, id, amount)))

\* Mutant: the spender is not compared with the zero address.
Erc6909__approve_NoSpenderCheck(self, owner, spender, id, amount) ==
    IF owner = ZERO THEN Err(self, InvalidApprover(owner))
    ELSE OkUnit(Log([self EXCEPT !.allowances[owner][spender][id] = amount],
                    Approval(owner, spender, id, amount)))

\* Mutant: approve adds to the previous allowance.
Erc6909__approve_Adds(self, owner, spender, id, amount) ==
    IF owner = ZERO THEN Err(self, InvalidApprover(owner))
    ELSE IF spender = ZERO THEN Err(self, InvalidSpender(spender))
    ELSE OkUnit(Log([self EXCEPT !.allowances[owner][spender][id] =
                         (@ + amount) % (U256_MAX + 1)],
                    Approval(owner, spender, id, amount)))

Erc6909__approve(self, owner, spender, id, amount) ==
    IF owner = ZERO THEN Err(self, InvalidApprover(owner))
    ELSE IF spender = ZERO THEN Err(self, InvalidSpender(spender))
    ELSE OkUnit(Log([self EXCEPT !.allowances[owner][spender][id] = amount],
                    Approval(owner, spender, id, amount)))

\* Mutant: the flag is set, never cleared.
Erc6909__set_operator_AlwaysTrue(self, owner, spender, approved) ==
    IF owner = ZERO THEN Err(self, InvalidApprover(owner))
    ELSE IF spender = ZERO THEN Err(self, InvalidSpender(spender))
    ELSE OkUnit(Log([self EXCEPT !.operator_approvals[owner][spender] = TRUE],
                    OperatorSet(owner, spender, approved)))

\* Mutant: a revocation is ignored, the flag is only ever raised.
Erc6909__set_operator_OnlyGrants(self, owner, spender, approved) ==
    IF owner = ZERO THEN Err(self, InvalidApprover(owner))
    ELSE IF spender = ZERO THEN Err(self, InvalidSpender(spender))
    ELSE OkUnit(Log([self EXCEPT !.operator_approvals[owner][spender] =
                         @ \/ approved],
                    OperatorSet(owner, spender, approved)))

Erc6909__set_operator(self, owner, spender, approved) ==
    IF owner = ZERO THEN Err(self, InvalidApprover(owner))
    ELSE IF spender = ZERO THEN Err(self, InvalidSpender(spender))
    ELSE OkUnit(Log([self EXCEPT !.operator_approvals[owner][spender] = approved],
                    OperatorSet(owner, spender, approved)))

\* Mutant: the error reports the requested amount in `needed`.
Erc6909__spend_allowance_NeededIsAmount(self, owner, spender, id, amount) ==
    LET current_allowance == Erc6909_allowance(self, owner, spender, id)
    IN IF amount > current_allowance
       THEN Err(self, InsufficientAllowance(spender, current_allowance, amount, id))
       ELSE OkUnit([self EXCEPT !.allowances[owner][spender][id] =
                        SubAssignUnchecked(@, amount)])

\* Mutant: the debit is written to the entry of (spender, owner).
Erc6909__spend_allowance_SwappedKeys(self, owner, spender, id, amount) ==
    LET current_allowance == Erc6909_allowance(self, owner, spender, id)
    IN IF amount > current_allowance
       THEN Err(self, InsufficientAllowance(spender, current_allowance,
                                            current_allowance, id))
       ELSE OkUnit([self EXCEPT !.allowances[spender][owner][id] =
                        SubAssignUnchecked(@, amount)])

\* Mutant: the allowance is checked but not consumed.
Erc6909__spend_allowance_NoDebit(self, owner, spender, id, amount) ==
    LET current_allowance == Erc6909_allowance(self, owner, spender, id)
    IN IF amount > current_allowance
       THEN Err(self, InsufficientAllowance(spender, current_allowance,
                                            current_allowance, id))
       ELSE OkUnit(self)

Erc6909__spend_allowance(self, owner, spender, id, amount) ==
    LET current_allowance == Erc6909_allowance(self, owner, spender, id)
    IN IF amount > current_allowance
       THEN Err(self, InsufficientAllowance(spender, current_allowance,
                                            current_allowance, id))
       ELSE OkUnit([self EXCEPT !.allowances[owner][spender][id] =
                        SubAssignUnchecked(@, amount)])

Erc6909_transfer(self, caller, receiver, id, amount) ==
    LET r == Erc6909__transfer(self, caller, caller, receiver, id, amount)
    IN IF ~IsOk(r) THEN r ELSE OkTrue(r.self)

\* Mutant: the allowance is spent also when the caller is the sender or an
\* operator of the sender.
Erc6909_transfer_from_AlwaysSpends(self, caller, sender, receiver, id, amount) ==
    LET spent == Erc6909__spend_allowance(self, sender, caller, id, amount)
    IN IF ~IsOk(spent) THEN spent
       ELSE LET r == Erc6909__transfer(spent.self, caller, sender, receiver, id, amount)
            IN IF ~IsOk(r) THEN r ELSE OkTrue(r.self)

\* Mutant: no authorization step.
Erc6909_transfer_from_NoAllowanceCheck(self, caller, sender, receiver, id, amount) ==
    LET r == Erc6909__transfer(self, caller, sender, receiver, id, amount)
    IN IF ~IsOk(r) THEN r ELSE OkTrue(r.self)

\* Mutant: the error of `_transfer` is dropped instead of propagated by `?`.
Erc6909_transfer_from_SwallowsError(self, caller, sender, receiver, id, amount) ==
    LET spent ==
            IF ~Erc6909_is_operator(self, sender, caller) /\ sender # caller
            THEN Erc6909__spend_allowance(self, sender, caller, id, amount)
            ELSE OkUnit(self)
    IN IF ~IsOk(spent) THEN spent
       ELSE LET r == Erc6909__transfer(spent.self, caller, sender, receiver, id, amount)
            IN IF ~IsOk(r) THEN OkTrue(spent.self) ELSE OkTrue(r.self)

Erc6909_transfer_from(self, caller, sender, receiver, id, amount) ==
    LET spent ==
            IF ~Erc6909_is_operator(self, sender, caller) /\ sender # caller
            THEN Erc6909__spend_allowance(self, sender, caller, id, amount)
            ELSE OkUnit(self)
    IN IF ~IsOk(spent) THEN spent
       ELSE LET r == Erc6909__transfer(spent.self, caller, sender, receiver, id, amount)
            IN IF ~IsOk(r) THEN r ELSE OkTrue(r.self)

Erc6909_approve(self, caller, spender, id, amount) ==
    LET r == Erc6909__approve(self, caller, spender, id, amount)
    IN IF ~IsOk(r) THEN r ELSE OkTrue(r.self)

Erc6909_set_operator(self, caller, spender, approved) ==
    LET r == Erc6909__set_operator(self, caller, spender, approved)
    IN IF ~IsOk(r) THEN r ELSE OkTrue(r.self)

Erc6909__do_mint(self, caller, to, ids, amounts) ==
    IF to = ZERO THEN Err(self, InvalidReceiver(to))
    ELSE Erc6909__update(self, caller, ZERO, to, ids, amounts)

Erc6909__do_burn(self, caller, from, ids, amounts) ==
    IF from = ZERO THEN Err(self, InvalidSender(from))
    ELSE Erc6909__update(self, caller, from, ZERO, ids, amounts)

Erc6909__mint(self, caller, to, id, amount) ==
    Erc6909__do_mint(self, caller, to, <<id>>, <<amount>>)

Erc6909__mint_batch(self, caller, to, ids, amounts) ==
    Erc6909__do_mint(self, caller, to, ids, amounts)

Erc6909__burn(self, caller, from, id, amount) ==
    Erc6909__do_burn(self, caller, from, <<id>>, <<amount>>)

Erc6909__burn_batch(self, caller, from, ids, amounts) ==
    Erc6909__do_burn(self, caller, from, ids, amounts)

\* ---- Erc6909Supply ---------------------------------------------------------
\* Mutant: the base ledger is not asked.
Erc6909Supply_supports_interface_NoBase(self, id) ==
    \/ IErc6909Supply_interface_id = id
    \/ IErc165_interface_id = id

Erc6909Supply_supports_interface(self, id) ==
    \/ IErc6909Supply_interface_id = id
    \/ Erc6909_supports_interface(self, id)
    \/ IErc165_interface_id = id

Erc6909Supply_total_supply(self, id) == self.total_supply[id]

Erc6909Supply_balance_of(self, owner, id) == Erc6909_balance_of(self, owner, id)

Erc6909Supply_allowance(self, owner, spender, id) ==
    Erc6909_allowance(self, owner, spender, id)

Erc6909Supply_is_operator(self, owner, spender) ==
    Erc6909_is_operator(self, owner, spender)

\* Mutant: total_supply is added to without the overflow check and wraps.
RECURSIVE Erc6909Supply__update_mint_loop_Wraps(_, _, _, _)
Erc6909Supply__update_mint_loop_Wraps(self, ids, amounts, i) ==
    IF i > Len(ids) \/ i > Len(amounts) THEN OkUnit(self)
    ELSE Erc6909Supply__update_mint_loop_Wraps(
             [self EXCEPT !.total_supply[ids[i]] = (@ + amounts[i]) % (U256_MAX + 1)],
             ids, amounts, i + 1)

\* Mutant: only the first (id, amount) pair is added to total_supply.
Erc6909Supply__update_mint_loop_FirstOnly(self, ids, amounts, i) ==
    IF i > Len(ids) \/ i > Len(amounts) THEN OkUnit(self)
    ELSE IF AddOverflows(self.total_supply[ids[i]], amounts[i])
         THEN Panic(self, "should not exceed U256::MAX for total_supply")
         ELSE OkUnit([self EXCEPT !.total_supply[ids[i]] = @ + amounts[i]])

\* if from.is_zero() { for .. { total_supply[id].add_assign_checked(amount) } }
RECURSIVE Erc6909Supply__update_mint_loop(_, _, _, _)
Erc6909Supply__update_mint_loop(self, ids, amounts, i) ==
    IF i > Len(ids) \/ i > Len(amounts) THEN OkUnit(self)
    ELSE IF AddOverflows(self.total_supply[ids[i]], amounts[i])
         THEN Panic(self, "should not exceed U256::MAX for total_supply")
         ELSE Erc6909Supply__update_mint_loop(
                  [self EXCEPT !.total_supply[ids[i]] = @ + amounts[i]],
                  ids, amounts, i + 1)

\* Mutant: only the first (id, amount) pair is taken from total_supply.
Erc6909Supply__update_burn_loop_FirstOnly(self, ids, amounts, i) ==
    IF i > Len(ids) \/ i > Len(amounts) THEN OkUnit(self)
    ELSE OkUnit([self EXCEPT !.total_supply[ids[i]] = SubAssignUnchecked(@, amounts[i])])

\* if to.is_zero() { for .. { total_supply[id].sub_assign_unchecked(amount) } }
RECURSIVE Erc6909Supply__update_burn_loop(_, _, _, _)
Erc6909Supply__update_burn_loop(self, ids, amounts, i) ==
    IF i > Len(ids) \/ i > Len(amounts) THEN OkUnit(self)
    ELSE Erc6909Supply__update_burn_loop(
             [self EXCEPT !.total_supply[ids[i]] = SubAssignUnchecked(@, amounts[i])],
             ids, amounts, i + 1)

\* Mutant: total_supply is added to before the base ledger's _update runs.
Erc6909Supply__update_SupplyFirst(self, caller, from, to, ids, amounts) ==
    LET minted == IF from = ZERO /\ Len(ids) = Len(amounts)
                  THEN Erc6909Supply__update_mint_loop(self, ids, amounts, 1)
                  ELSE OkUnit(self)
    IN IF ~IsOk(minted) THEN minted
       ELSE LET base == Erc6909__update(minted.self, caller, from, to, ids, amounts)
            IN IF ~IsOk(base) THEN base
               ELSE IF to = ZERO
                    THEN Erc6909Supply__update_burn_loop(base.self, ids, amounts, 1)
                    ELSE base

\* Mutant: the mint leg does not adjust total_supply.
Erc6909Supply__update_NoMintLeg(self, caller, from, to, ids, amounts) ==
    LET base == Erc6909__update(self, caller, from, to, ids, amounts)
    IN IF ~IsOk(base) THEN base
       ELSE IF to = ZERO
            THEN Erc6909Supply__update_burn_loop(base.self, ids, amounts, 1)
            ELSE base

\* Mutant: the burn leg does not adjust total_supply.
Erc6909Supply__update_NoBurnLeg(self, caller, from, to, ids, amounts) ==
    LET base == Erc6909__update(self, caller, from, to, ids, amounts)
    IN IF ~IsOk(base) THEN base
       ELSE IF from = ZERO
            THEN Erc6909Supply__update_mint_loop(base.self, ids, amounts, 1)
            ELSE base

Erc6909Supply__update(self, caller, from, to, ids, amounts) ==
    LET base == Erc6909__update(self, caller, from, to, ids, amounts)
    IN IF ~IsOk(base) THEN base
       ELSE LET minted == IF from = ZERO
                          THEN Erc6909Supply__update_mint_loop(base.self, ids, amounts, 1)
                          ELSE base
            IN IF ~IsOk(minted) THEN minted
               ELSE IF to = ZERO
                    THEN Erc6909Supply__update_burn_loop(minted.self, ids, amounts, 1)
                    ELSE minted

Erc6909Supply__transfer(self, caller, from, to, id, amount) ==
    IF from = ZERO THEN Err(self, InvalidSender(from))
    ELSE IF to = ZERO THEN Err(self, InvalidReceiver(to))
    ELSE LET r == Erc6909Supply__update(self, caller, from, to, <<id>>, <<amount>>)
         IN IF ~IsOk(r) THEN r ELSE OkTrue(r.self)

Erc6909Supply_transfer(self, caller, receiver, id, amount) ==
    Erc6909Supply__transfer(self, caller, caller, receiver, id, amount)

Erc6909Supply_transfer_from(self, caller, sender, receiver, id, amount) ==
    Erc6909Supply__transfer(self, caller, sender, receiver, id, amount)

Erc6909Supply_approve(self, caller, spender, id, amount) ==
    Erc6909_approve(self, caller, spender, id, amount)

\* Mutant: the call is not passed on to the base ledger.
Erc6909Supply_set_operator_Ignored(self, caller, spender, approved) ==
    OkTrue(self)

Erc6909Supply_set_operator(self, caller, spender, approved) ==
    Erc6909_set_operator(self, caller, spender, approved)

\* Mutant: the mint goes through the base ledger's _update, not the override.
Erc6909Supply__do_mint_BaseUpdate(self, caller, to, ids, amounts) ==
    IF to = ZERO THEN Err(self, InvalidReceiver(to))
    ELSE Erc6909__update(self, caller, ZERO, to, ids, amounts)

\* Mutant: the receiver is not compared with the zero address.
Erc6909Supply__do_mint_NoReceiverCheck(self, caller, to, ids, amounts) ==
    Erc6909Supply__update(self, caller, ZERO, to, ids, amounts)

Erc6909Supply__do_mint(self, caller, to, ids, amounts) ==
    IF to = ZERO THEN Err(self, InvalidReceiver(to))
    ELSE Erc6909Supply__update(self, caller, ZERO, to, ids, amounts)

\* Mutant: the burn goes through the base ledger's _update, not the override.
Erc6909Supply__do_burn_BaseUpdate(self, caller, from, ids, amounts) ==
    IF from = ZERO THEN Err(self, InvalidSender(from))
    ELSE Erc6909__update(self, caller, from, ZERO, ids, amounts)

Erc6909Supply__do_burn(self, caller, from, ids, amounts) ==
    IF from = ZERO THEN Err(self, InvalidSender(from))
    ELSE Erc6909Supply__update(self, caller, from, ZERO, ids, amounts)

\* Mutant: the amount is minted twice.
Erc6909Supply__mint_Twice(self, caller, to, id, amount) ==
    Erc6909Supply__do_mint(self, caller, to, <<id, id>>, <<amount, amount>>)

Erc6909Supply__mint(self, caller, to, id, amount) ==
    Erc6909Supply__do_mint(self, caller, to, <<id>>, <<amount>>)

Erc6909Supply__mint_batch(self, caller, to, ids, values) ==
    Erc6909Supply__do_mint(self, caller, to, ids, values)

Erc6909Supply__burn(self, caller, from, id, amount) ==
    Erc6909Supply__do_burn(self, caller, from, <<id>>, <<amount>>)

Erc6909Supply__burn_batch(self, caller, from, ids, values) ==
    Erc6909Supply__do_burn(self, caller, from, ids, values)

\* ---- the deployed contract --------------------------------------------------
\* contract: which of the two contracts is deployed.  balances,
\* operator_approvals, allowances, total_supply: its storage.  A run is a
\* prefix of at most MaxSteps committed invocations followed by one observed
\* invocation: `last` holds the observed invocation (method, caller,
\* arguments, returned value and the storage it started from) and `log` the
\* events it emitted.  Neither is read by any method.
\* `ghost` is history of the run, kept for the claims about sequences of
\* invocations (SpecSequence); Spec leaves it alone.
VARIABLES contract, balances, operator_approvals, allowances, total_supply,
          log, last, steps, ghost

vars == <<contract, balances, operator_approvals, allowances, total_supply,
          log, last, steps, ghost>>

IsSupply == contract = "Erc6909Supply"

\* The storage an invocation starts from; log collects what it emits.
Self ==
    [balances |-> balances, operator_approvals |-> operator_approvals,
     allowances |-> allowances, total_supply |-> total_supply, log |-> <<>>]

NoCall ==
    [op |-> "none", caller |-> ZERO, from |-> ZERO, to |-> ZERO,
     ids |-> <<>>, amounts |-> <<>>, approved |-> FALSE,
     interface_id |-> <<>>, res |-> [tag |-> "Ok"], pre |-> <<>>]

Init ==
    /\ contract \in {"Erc6909", "Erc6909Supply"}
    /\ balances = [a \in Address |-> [i \in TokenId |-> 0]]
    /\ operator_approvals = [a \in Address |-> [b \in Address |-> FALSE]]
    /\ allowances = [a \in Address |-> [b \in Address |-> [i \in TokenId |-> 0]]]
    /\ total_supply = [i \in TokenId |-> 0]
    /\ log = <<>>
    /\ last = NoCall
    /\ steps = 0
    /\ ghost = <<>>

Running == last.op = "none"

\* One top-level invocation: the writes and logs of a call that returned Ok
\* are committed, those of a call that returned Err or panicked are reverted.
Invoke(observe, op, caller, from, to, ids, amounts, approved, r) ==
    /\ IF IsOk(r)
       THEN /\ balances' = r.self.balances
            /\ operator_approvals' = r.self.operator_approvals
            /\ allowances' = r.self.allowances
            /\ total_supply' = r.self.total_supply
       ELSE UNCHANGED <<balances, operator_approvals, allowances, total_supply>>
    /\ IF observe
       THEN /\ last' = [op |-> op, caller |-> caller, from |-> from, to |-> to,
                        ids |-> ids, amounts |-> amounts, approved |-> approved,
                        interface_id |-> <<>>, res |-> r.res, pre |-> Self]
            /\ log' = IF IsOk(r) THEN r.self.log ELSE <<>>
            /\ UNCHANGED steps
       ELSE /\ steps < MaxSteps
            /\ steps' = IF IsOk(r) THEN steps + 1 ELSE steps
            /\ UNCHANGED <<last, log>>
    /\ UNCHANGED <<contract, ghost>>

Transfer ==
    /\ Running
    /\ \E observe \in BOOLEAN, caller \in Account, receiver \in Address,
          id \in TokenId, amount \in U256 :
        Invoke(observe, "transfer", caller, caller, receiver, <<id>>, <<amount>>, FALSE,
               IF IsSupply
               THEN Erc6909Supply_transfer(Self, caller, receiver, id, amount)
               ELSE Erc6909_transfer(Self, caller, receiver, id, amount))

TransferFrom ==
    /\ Running
    /\ \E observe \in BOOLEAN, caller \in Account, sender \in Address,
          receiver \in Address, id \in TokenId, amount \in U256 :
        Invoke(observe, "transfer_from", caller, sender, receiver, <<id>>, <<amount>>, FALSE,
               IF IsSupply
               THEN Erc6909Supply_transfer_from(Self, caller, sender, receiver, id, amount)
               ELSE Erc6909_transfer_from(Self, caller, sender, receiver, id, amount))

\* approve and set_operator compare msg::sender() itself with the zero
\* address (InvalidApprover), so these two are also invoked by ZERO.
Approve ==
    /\ Running
    /\ \E observe \in BOOLEAN, caller \in Address, spender \in Address,
          id \in TokenId, amount \in U256 :
        Invoke(observe, "approve", caller, caller, spender, <<id>>, <<amount>>, FALSE,
               IF IsSupply
               THEN Erc6909Supply_approve(Self, caller, spender, id, amount)
               ELSE Erc6909_approve(Self, caller, spender, id, amount))

SetOperator ==
    /\ Running
    /\ \E observe \in BOOLEAN, caller \in Address, spender \in Address,
          approved \in BOOLEAN :
        Invoke(observe, "set_operator", caller, caller, spender, <<>>, <<>>, approved,
               IF IsSupply
               THEN Erc6909Supply_set_operator(Self, caller, spender, approved)
               ELSE Erc6909_set_operator(Self, caller, spender, approved))

Mint ==
    /\ Running
    /\ \E observe \in BOOLEAN, caller \in Account, to \in Address,
          id \in TokenId, amount \in U256 :
        Invoke(observe, "_mint", caller, ZERO, to, <<id>>, <<amount>>, FALSE,
               IF IsSupply
               THEN Erc6909Supply__mint(Self, caller, to, id, amount)
               ELSE Erc6909__mint(Self, caller, to, id, amount))

MintBatch ==
    /\ Running
    /\ \E observe \in BOOLEAN, caller \in Account, to \in Address,
          ids \in SeqsUpTo(TokenId, MaxBatch), amounts \in SeqsUpTo(U256, MaxBatch) :
        Invoke(observe, "_mint_batch", caller, ZERO, to, ids, amounts, FALSE,
               IF IsSupply
               THEN Erc6909Supply__mint_batch(Self, caller, to, ids, amounts)
               ELSE Erc6909__mint_batch(Self, caller, to, ids, amounts))

Burn ==
    /\ Running
    /\ \E observe \in BOOLEAN, caller \in Account, from \in Address,
          id \in TokenId, amount \in U256 :
        Invoke(observe, "_burn", caller, from, ZERO, <<id>>, <<amount>>, FALSE,
               IF IsSupply
               THEN Erc6909Supply__burn(Self, caller, from, id, amount)
               ELSE Erc6909__burn(Self, caller, from, id, amount))

BurnBatch ==
    /\ Running
    /\ \E observe \in BOOLEAN, caller \in Account, from \in Address,
          ids \in SeqsUpTo(TokenId, MaxBatch), amounts \in SeqsUpTo(U256, MaxBatch) :
        Invoke(observe, "_burn_batch", caller, from, ZERO, ids, amounts, FALSE,
               IF IsSupply
               THEN Erc6909Supply__burn_batch(Self, caller, from, ids, amounts)
               ELSE Erc6909__burn_batch(Self, caller, from, ids, amounts))

\* One invocation of a read-only method (&self): it returns a value, writes
\* nothing and logs nothing.  Only the observed invocation is modelled, an
\* unobserved read leaves the state as it is.
Query(op, from, to, ids, id, value) ==
    /\ last' = [op |-> op, caller |-> ZERO, from |-> from, to |-> to,
                ids |-> ids, amounts |-> <<>>, approved |-> FALSE,
                interface_id |-> id, res |-> [tag |-> "Ok", value |-> value],
                pre |-> Self]
    /\ log' = <<>>
    /\ UNCHANGED <<contract, balances, operator_approvals, allowances,
                   total_supply, steps, ghost>>

BalanceOf ==
    /\ Running
    /\ \E owner \in Address, id \in TokenId :
        Query("balance_of", owner, ZERO, <<id>>, <<>>,
              IF IsSupply
              THEN Erc6909Supply_balance_of(Self, owner, id)
              ELSE Erc6909_balance_of(Self, owner, id))

Allowance ==
    /\ Running
    /\ \E owner \in Address, spender \in Address, id \in TokenId :
        Query("allowance", owner, spender, <<id>>, <<>>,
              IF IsSupply
              THEN Erc6909Supply_allowance(Self, owner, spender, id)
              ELSE Erc6909_allowance(Self, owner, spender, id))

IsOperator ==
    /\ Running
    /\ \E owner \in Address, spender \in Address :
        Query("is_operator", owner, spender, <<>>, <<>>,
              IF IsSupply
              THEN Erc6909Supply_is_operator(Self, owner, spender)
              ELSE Erc6909_is_operator(Self, owner, spender))

TotalSupply ==
    /\ Running
    /\ IsSupply
    /\ \E id \in TokenId :
        Query("total_supply", ZERO, ZERO, <<id>>, <<>>,
              Erc6909Supply_total_supply(Self, id))

\* The identifiers supports_interface is asked about: the three the contracts
\* compute, the two unclaimed ones of the tests, the zero identifier and two
\* single selectors.
InterfaceIds ==
    {IErc6909_interface_id, IErc6909Supply_interface_id, IErc165_interface_id,
     <<255, 255, 255, 255>>, <<18, 52, 86, 120>>, <<0, 0, 0, 0>>,
     Selector_transfer, Selector_balanceOf}

SupportsInterface ==
    /\ Running
    /\ \E id \in InterfaceIds :
        Query("supports_interface", ZERO, ZERO, <<>>, id,
              IF IsSupply
              THEN Erc6909Supply_supports_interface(Self, id)
              ELSE Erc6909_supports_interface(Self, id))

Next ==
    \/ Transfer
    \/ TransferFrom
    \/ Approve
    \/ SetOperator
    \/ Mint
    \/ MintBatch
    \/ Burn
    \/ BurnBatch
    \/ BalanceOf
    \/ Allowance
    \/ IsOperator
    \/ TotalSupply
    \/ SupportsInterface

Spec == Init /\ [][Next]_vars

\* ---- sequences of invocations on the base ledger ---------------------------
\* A run of SpecSequence is a sequence of invocations of the base ledger with
\* at most MaxCalls successful ones; `last` holds the latest invocation.  The
\* run watches one owner, one spender (any account, the owner included) and
\* one token id, and `ghost` keeps for them (accounts and token ids are
\* interchangeable in the code, so the owner is account 1 and the id is 1):
\*   granted       the amount of the owner's latest successful
\*                 approve(spender, id, _), 0 before the first;
\*   moved         the total the spender's successful
\*                 transfer_from(owner, _, id, _) calls moved since then;
\*   was_operator  the spender has been an operator of the owner at some
\*                 moment since then;
\*   revoked       the owner's latest successful set_operator(spender, _)
\*                 passed false.
InitSequence ==
    /\ contract = "Erc6909"
    /\ balances = [a \in Address |-> [i \in TokenId |-> 0]]
    /\ operator_approvals = [a \in Address |-> [b \in Address |-> FALSE]]
    /\ allowances = [a \in Address |-> [b \in Address |-> [i \in TokenId |-> 0]]]
    /\ total_supply = [i \in TokenId |-> 0]
    /\ log = <<>>
    /\ last = NoCall
    /\ steps = 0
    /\ \E s \in Account :
           ghost = [owner |-> 1, spender |-> s, id |-> 1, granted |-> 0,
                    moved |-> 0, was_operator |-> FALSE, revoked |-> FALSE]

Watched(caller, owner, spender) ==
    caller = ghost.owner /\ owner = ghost.owner /\ spender = ghost.spender

Call(op, caller, from, to, id, amount, approved, r) ==
    /\ steps < MaxCalls
    /\ IF IsOk(r)
       THEN /\ balances' = r.self.balances
            /\ operator_approvals' = r.self.operator_approvals
            /\ allowances' = r.self.allowances
            /\ total_supply' = r.self.total_supply
            /\ log' = r.self.log
            /\ steps' = steps + 1
       ELSE /\ UNCHANGED <<balances, operator_approvals, allowances, total_supply,
                           steps>>
            /\ log' = <<>>
    /\ last' = [op |-> op, caller |-> caller, from |-> from, to |-> to,
                ids |-> <<id>>, amounts |-> <<amount>>, approved |-> approved,
                interface_id |-> <<>>, res |-> r.res, pre |-> Self]
    /\ ghost' =
           IF ~IsOk(r) THEN ghost
           ELSE IF op = "approve" /\ Watched(caller, from, to) /\ id = ghost.id
           THEN [ghost EXCEPT !.granted = amount, !.moved = 0,
                              !.was_operator =
                                  operator_approvals[ghost.owner][ghost.spender]]
           ELSE IF op = "set_operator" /\ Watched(caller, from, to)
           THEN [ghost EXCEPT !.revoked = ~approved,
                              !.was_operator = @ \/ approved]
           ELSE IF /\ op = "transfer_from"
                   /\ caller = ghost.spender
                   /\ from = ghost.owner
                   /\ id = ghost.id
           THEN [ghost EXCEPT !.moved = @ + amount]
           ELSE ghost
    /\ UNCHANGED contract

\* The invocations of a run name the watched token id and non-zero
\* addresses; Spec covers the other ids, the zero address and the batches.
SeqMint ==
    \E to \in Account, amount \in U256 :
        Call("_mint", to, ZERO, to, ghost.id, amount, FALSE,
             Erc6909__mint(Self, to, to, ghost.id, amount))

SeqTransfer ==
    \E caller \in Account, receiver \in Account, amount \in U256 :
        Call("transfer", caller, caller, receiver, ghost.id, amount, FALSE,
             Erc6909_transfer(Self, caller, receiver, ghost.id, amount))

SeqTransferFrom ==
    \E caller \in Account, sender \in Account, receiver \in Account, amount \in U256 :
        Call("transfer_from", caller, sender, receiver, ghost.id, amount, FALSE,
             Erc6909_transfer_from(Self, caller, sender, receiver, ghost.id, amount))

SeqApprove ==
    \E caller \in Account, spender \in Account, amount \in U256 :
        Call("approve", caller, caller, spender, ghost.id, amount, FALSE,
             Erc6909_approve(Self, caller, spender, ghost.id, amount))

SeqSetOperator ==
    \E caller \in Account, spender \in Account, approved \in BOOLEAN :
        Call("set_operator", caller, caller, spender, ghost.id, 0, approved,
             Erc6909_set_operator(Self, caller, spender, approved))

SeqBurn ==
    \E from \in Account, amount \in U256 :
        Call("_burn", from, from, ZERO, ghost.id, amount, FALSE,
             Erc6909__burn(Self, from, from, ghost.id, amount))

NextSequence ==
    \/ SeqMint
    \/ SeqTransfer
    \/ SeqTransferFrom
    \/ SeqApprove
    \/ SeqSetOperator
    \/ SeqBurn

SpecSequence == InitSequence /\ [][NextSequence]_vars

TypeOK ==
    /\ contract \in {"Erc6909", "Erc6909Supply"}
    /\ balances \in [Address -> [TokenId -> U256]]
    /\ operator_approvals \in [Address -> [Address -> BOOLEAN]]
    /\ allowances \in [Address -> [Address -> [TokenId -> U256]]]
    /\ total_supply \in [TokenId -> U256]
    /\ steps \in 0..MaxSteps

\* ---- the observed invocation ------------------------------------------------
Observed(op) == last.op = op

Succeeded == last.res.tag = "Ok"

ArgId == last.ids[1]

ArgAmount == last.amounts[1]

StorageUnchanged ==
    /\ balances = last.pre.balances
    /\ operator_approvals = last.pre.operator_approvals
    /\ allowances = last.pre.allowances
    /\ total_supply = last.pre.total_supply

\* transfer_from takes the allowance path: the caller is neither the sender
\* nor an operator of the sender.
ConsumesAllowance ==
    /\ last.caller # last.from
    /\ ~last.pre.operator_approvals[last.from][last.caller]

RECURSIVE SumBalances(_, _, _)
SumBalances(bal, owners, id) ==
    IF owners = {} THEN 0
    ELSE LET o == CHOOSE x \in owners : TRUE
         IN bal[o][id] + SumBalances(bal, owners \ {o}, id)

\* ---- C1 -----------------------------------------------------------------------
\* C1: on the supply extension, in every reachable state (after any sequence of
\* committed invocations) the balances of the non-zero owners of each token id
\* add up to total_supply[id].
C1_SupplyEqualsSumOfBalances ==
    IsSupply => \A id \in TokenId : SumBalances(balances, Account, id) = total_supply[id]

C1_Witness ==
    /\ IsSupply
    /\ Observed("_burn")
    /\ Succeeded
    /\ ArgAmount > 0
    /\ balances[last.from][ArgId] = 0
    /\ total_supply[ArgId] > 0

\* ---- C2 -----------------------------------------------------------------------
\* C2: on the supply extension transfer_from succeeds exactly when the base
\* ledger's transfer_from succeeds from the same storage, caller and arguments,
\* with the same returned value, and makes the same changes to balances and
\* allowances; in particular a caller that is neither the sender, nor an
\* operator of the sender, nor holds an allowance covering the amount moves no
\* tokens.
C2_SupplyTransferFromDelegates ==
    (IsSupply /\ Observed("transfer_from")) =>
        LET b == Erc6909_transfer_from(last.pre, last.caller, last.from, last.to,
                                       ArgId, ArgAmount)
        IN /\ Succeeded <=> IsOk(b)
           /\ Succeeded => last.res = b.res
           /\ balances = (IF IsOk(b) THEN b.self.balances ELSE last.pre.balances)
           /\ allowances = (IF IsOk(b) THEN b.self.allowances ELSE last.pre.allowances)

\* ---- C3 -----------------------------------------------------------------------
\* C3: on the base ledger a transfer_from by a caller that is not the sender,
\* not an operator of the sender and holds an allowance below the amount fails
\* with InsufficientAllowance and changes nothing; a transfer or transfer_from
\* that lowers the sender's balance was called by the sender, an operator of
\* the sender or a spender whose allowance covered the amount.
C3_UnauthorizedTransferFromFails ==
    (~IsSupply /\ Observed("transfer_from")) =>
        LET unauthorized ==
                /\ ConsumesAllowance
                /\ last.pre.allowances[last.from][last.caller][ArgId] < ArgAmount
        IN /\ unauthorized =>
                /\ last.res.tag = "InsufficientAllowance"
                /\ StorageUnchanged
                /\ log = <<>>
           /\ (\E id \in TokenId :
                   balances[last.from][id] < last.pre.balances[last.from][id])
                => ~unauthorized

C3_Witness ==
    /\ ~IsSupply
    /\ Observed("transfer_from")
    /\ last.from # ZERO
    /\ last.to # ZERO
    /\ ConsumesAllowance
    /\ last.pre.allowances[last.from][last.caller][ArgId] > 0
    /\ last.pre.allowances[last.from][last.caller][ArgId] < ArgAmount
    /\ last.pre.balances[last.from][ArgId] >= ArgAmount
    /\ last.res.tag = "InsufficientAllowance"

C5_ZeroAddressHoldsNothing ==
    \A id \in TokenId : balances[ZERO][id] = 0

C5_Witness ==
    /\ Observed("_burn")
    /\ Succeeded
    /\ ArgAmount > 0
    /\ balances[last.from][ArgId] = last.pre.balances[last.from][ArgId] - ArgAmount
    /\ balances[ZERO][ArgId] = 0

\* ---- C6 -----------------------------------------------------------------------
\* C6 as stated: every successful transfer(to, id, a) lowers the caller's
\* balance of id by a, raises the receiver's by a and leaves total_supply.
C6_TransferMovesAmount_Original ==
    (Observed("transfer") /\ Succeeded) =>
        /\ balances[last.caller][ArgId] + ArgAmount = last.pre.balances[last.caller][ArgId]
        /\ balances[last.to][ArgId] = last.pre.balances[last.to][ArgId] + ArgAmount
        /\ total_supply = last.pre.total_supply

\* C6 (amended): a successful transfer(to, id, a) to a receiver other than the
\* caller lowers the caller's balance of id by a and raises the receiver's by
\* a; a successful transfer to the caller itself leaves the caller's balance as
\* it was; in both cases every other balance and every total_supply entry is
\* unchanged.
C6_TransferMovesAmount ==
    (Observed("transfer") /\ Succeeded) =>
        /\ last.to # ZERO
        /\ last.pre.balances[last.caller][ArgId] >= ArgAmount
        /\ balances =
             IF last.to = last.caller THEN last.pre.balances
             ELSE [last.pre.balances EXCEPT
                      ![last.caller][ArgId] = @ - ArgAmount,
                      ![last.to][ArgId] = @ + ArgAmount]
        /\ total_supply = last.pre.total_supply

C6_Witness ==
    /\ IsSupply
    /\ Observed("transfer")
    /\ Succeeded
    /\ last.to # last.caller
    /\ ArgAmount > 0
    /\ last.pre.balances[last.to][ArgId] > 0
    /\ total_supply[ArgId] > ArgAmount

\* ---- C7 -----------------------------------------------------------------------
\* C7: on the base ledger a transfer_from on the allowance path whose allowance
\* covers the amount but whose transfer cannot happen (sender's balance below
\* the amount, zero receiver or zero sender) returns that error, and the
\* allowance, every balance and the rest of the storage are as before the call
\* and no event is emitted.
C7_FailedTransferFromKeepsAllowance ==
    (/\ ~IsSupply
     /\ Observed("transfer_from")
     /\ ConsumesAllowance
     /\ last.pre.allowances[last.from][last.caller][ArgId] >= ArgAmount
     /\ \/ last.from = ZERO
        \/ last.to = ZERO
        \/ last.pre.balances[last.from][ArgId] < ArgAmount) =>
        /\ last.res.tag \in {"InsufficientBalance", "InvalidReceiver", "InvalidSender"}
        /\ allowances = last.pre.allowances
        /\ balances = last.pre.balances
        /\ StorageUnchanged
        /\ log = <<>>

C7_Witness ==
    /\ ~IsSupply
    /\ Observed("transfer_from")
    /\ ConsumesAllowance
    /\ ArgAmount > 0
    /\ last.pre.allowances[last.from][last.caller][ArgId] >= ArgAmount
    /\ last.res.tag = "InsufficientBalance"
    /\ allowances[last.from][last.caller][ArgId] >= ArgAmount

\* ---- C8 -----------------------------------------------------------------------
\* C8 as stated: a transfer or transfer_from whose sender holds less than the
\* amount fails with InsufficientBalance{sender, balance, needed = amount, id}
\* and leaves the storage unchanged.
C8_InsufficientBalance_Original ==
    (/\ last.op \in {"transfer", "transfer_from"}
     /\ last.pre.balances[last.from][ArgId] < ArgAmount) =>
        /\ last.res = InsufficientBalance(last.from,
                                          last.pre.balances[last.from][ArgId],
                                          ArgAmount, ArgId)
        /\ StorageUnchanged

\* C8 (amended): a transfer or transfer_from with non-zero sender and receiver
\* that is not stopped by the allowance step of the base ledger's
\* transfer_from, and whose sender holds less than the amount, fails with
\* InsufficientBalance{sender, balance = current balance, needed = amount, id};
\* every transfer or transfer_from whose sender holds less than the amount
\* fails and leaves balances, allowances, operator flags and total_supply
\* unchanged.
C8_InsufficientBalance ==
    (/\ last.op \in {"transfer", "transfer_from"}
     /\ last.pre.balances[last.from][ArgId] < ArgAmount) =>
        /\ ~Succeeded
        /\ StorageUnchanged
        /\ log = <<>>
        /\ (/\ last.from # ZERO
            /\ last.to # ZERO
            /\ \/ IsSupply
               \/ Observed("transfer")
               \/ ~ConsumesAllowance
               \/ last.pre.allowances[last.from][last.caller][ArgId] >= ArgAmount) =>
                last.res = InsufficientBalance(last.from,
                                               last.pre.balances[last.from][ArgId],
                                               ArgAmount, ArgId)

C8_Witness ==
    /\ Observed("transfer_from")
    /\ ~IsSupply
    /\ last.caller # last.from
    /\ last.pre.operator_approvals[last.from][last.caller]
    /\ last.pre.balances[last.from][ArgId] = 1
    /\ ArgAmount = 2
    /\ last.res = InsufficientBalance(last.from, 1, 2, ArgId)

\* ---- C9 -----------------------------------------------------------------------
\* C9: after a successful approve(s, id, a) by caller, allowance(caller, s, id)
\* is a whatever it was before, and the invocation emitted exactly
\* Approval(caller, s, id, a).
C9_ApproveSetsAllowance ==
    (Observed("approve") /\ Succeeded) =>
        /\ allowances[last.caller][last.to][ArgId] = ArgAmount
        /\ log = <<Approval(last.caller, last.to, ArgId, ArgAmount)>>

C9_Witness ==
    /\ Observed("approve")
    /\ Succeeded
    /\ last.pre.allowances[last.caller][last.to][ArgId] = 2
    /\ ArgAmount = 1
    /\ allowances[last.caller][last.to][ArgId] = 1

\* ---- C10 ----------------------------------------------------------------------
\* C10: after a successful set_operator(s, v) by caller, is_operator(caller, s)
\* is v, for v true and v false, and the invocation emitted exactly
\* OperatorSet(caller, s, v); no other flag changes, and no invocation of any
\* other method changes any operator flag.
C10_SetOperatorSetsFlag ==
    /\ (Observed("set_operator") /\ Succeeded) =>
           /\ operator_approvals[last.caller][last.to] = last.approved
           /\ log = <<OperatorSet(last.caller, last.to, last.approved)>>
           /\ \A o \in Address, s \in Address :
                  (o # last.caller \/ s # last.to) =>
                      operator_approvals[o][s] = last.pre.operator_approvals[o][s]
    /\ (~Observed("none") /\ ~Observed("set_operator")) =>
           operator_approvals = last.pre.operator_approvals

C10_Witness ==
    /\ Observed("set_operator")
    /\ Succeeded
    /\ last.approved = FALSE
    /\ last.pre.operator_approvals[last.caller][last.to] = TRUE
    /\ operator_approvals[last.caller][last.to] = FALSE

\* ---- C11 ----------------------------------------------------------------------
\* C11: approve and set_operator invoked by the zero address fail with
\* InvalidApprover(ZERO), whatever the spender; invoked by a non-zero caller
\* with spender = ZERO they fail with InvalidSpender(ZERO).  In both cases
\* allowances, operator flags and every other storage entry stay as they were
\* and no event is emitted.
C11_ZeroSpenderOrApproverRejected ==
    ((Observed("approve") \/ Observed("set_operator")) /\ (last.caller = ZERO \/ last.to = ZERO))
        => /\ last.res = IF last.caller = ZERO
                         THEN InvalidApprover(ZERO)
                         ELSE InvalidSpender(ZERO)
           /\ StorageUnchanged
           /\ log = <<>>

C11_Witness ==
    /\ Observed("approve")
    /\ last.caller # ZERO
    /\ last.to = ZERO
    /\ ArgAmount > 0
    /\ last.res = InvalidSpender(ZERO)
    /\ \E s \in Account : last.pre.allowances[last.caller][s][ArgId] > 0

\* ---- C12 ----------------------------------------------------------------------
\* The sum of amounts[i] over the positions i of ids that hold id.
RECURSIVE AmountFor(_, _, _)
AmountFor(ids, amounts, id) ==
    IF ids = <<>> \/ amounts = <<>> THEN 0
    ELSE (IF Head(ids) = id THEN Head(amounts) ELSE 0)
         + AmountFor(Tail(ids), Tail(amounts), id)

\* C12: on the supply extension a successful _mint or _mint_batch has a
\* non-zero receiver, raises balances[to][id] and total_supply[id] by exactly
\* the amount minted for id (for every (id, amount) pair of a batch) and
\* leaves every other balance, every other supply entry, the allowances and
\* the operator flags as they were.
C12_MintRaisesBalanceAndSupply ==
    (IsSupply /\ (Observed("_mint") \/ Observed("_mint_batch")) /\ Succeeded)
        => /\ last.to # ZERO
           /\ \A a \in Address, id \in TokenId :
                  balances[a][id] = last.pre.balances[a][id]
                      + (IF a = last.to THEN AmountFor(last.ids, last.amounts, id) ELSE 0)
           /\ \A id \in TokenId :
                  total_supply[id] = last.pre.total_supply[id]
                      + AmountFor(last.ids, last.amounts, id)
           /\ allowances = last.pre.allowances
           /\ operator_approvals = last.pre.operator_approvals

C12_Witness ==
    /\ IsSupply
    /\ Observed("_mint_batch")
    /\ Succeeded
    /\ Len(last.ids) = 2
    /\ last.ids[1] # last.ids[2]
    /\ \A i \in 1..2 : last.amounts[i] > 0
    /\ \E a \in Account : a # last.to /\ last.pre.balances[a][last.ids[2]] > 0

\* ---- C13 ----------------------------------------------------------------------
\* C13: on both contracts _mint and _mint_batch with to = ZERO fail with
\* InvalidReceiver(ZERO), and _burn and _burn_batch with from = ZERO fail with
\* InvalidSender(ZERO), whatever the vectors; no balance, supply, allowance or
\* operator flag changes and no event is emitted.
C13_MintToZeroBurnFromZeroRejected ==
    /\ ((Observed("_mint") \/ Observed("_mint_batch")) /\ last.to = ZERO)
           => (last.res = InvalidReceiver(ZERO) /\ StorageUnchanged /\ log = <<>>)
    /\ ((Observed("_burn") \/ Observed("_burn_batch")) /\ last.from = ZERO)
           => (last.res = InvalidSender(ZERO) /\ StorageUnchanged /\ log = <<>>)

C13_Witness ==
    /\ IsSupply
    /\ Observed("_mint")
    /\ last.to = ZERO
    /\ ArgAmount > 0
    /\ last.res = InvalidReceiver(ZERO)
    /\ last.pre.total_supply[ArgId] > 0

\* ---- C14 ----------------------------------------------------------------------
\* C14: a _burn from a non-zero owner that holds at least the amount succeeds
\* and lowers balances[from][id] by exactly the amount; on the supply
\* extension it lowers total_supply[id] by the same amount, on the base ledger
\* total_supply is not touched.  A _burn of more than the owner holds fails
\* with InsufficientBalance(from, balance, amount, id) and leaves the balance
\* and total_supply (and all other storage) as they were.
C14_BurnLowersBalanceAndSupply ==
    (Observed("_burn") /\ last.from # ZERO)
        => IF ArgAmount <= last.pre.balances[last.from][ArgId]
           THEN /\ Succeeded
                /\ balances = [last.pre.balances EXCEPT ![last.from][ArgId] = @ - ArgAmount]
                /\ total_supply = IF IsSupply
                                  THEN [last.pre.total_supply EXCEPT ![ArgId] = @ - ArgAmount]
                                  ELSE last.pre.total_supply
           ELSE /\ last.res = InsufficientBalance(last.from,
                                                  last.pre.balances[last.from][ArgId],
                                                  ArgAmount, ArgId)
                /\ StorageUnchanged

C14_Witness ==
    /\ IsSupply
    /\ Observed("_burn")
    /\ Succeeded
    /\ ArgAmount > 0
    /\ balances[last.from][ArgId] > 0
    /\ total_supply[ArgId] = last.pre.total_supply[ArgId] - ArgAmount

\* ---- C15 ----------------------------------------------------------------------
\* _mint as the deployed contract runs it.
MintOf(self, caller, to, id, amount) ==
    IF IsSupply
    THEN Erc6909Supply__mint(self, caller, to, id, amount)
    ELSE Erc6909__mint(self, caller, to, id, amount)

\* C15: after a successful _burn(owner, id, amount), a _mint(owner, id, amount)
\* by any caller on the storage the burn left behind succeeds and yields the
\* storage the burn started from: every balance, allowance, operator flag and
\* total_supply entry has its value from before the burn.
C15_BurnThenMintRestores ==
    (Observed("_burn") /\ Succeeded)
        => \A c \in Account :
               LET m == MintOf(Self, c, last.from, ArgId, ArgAmount)
               IN /\ IsOk(m)
                  /\ m.self.balances = last.pre.balances
                  /\ m.self.allowances = last.pre.allowances
                  /\ m.self.operator_approvals = last.pre.operator_approvals
                  /\ m.self.total_supply = last.pre.total_supply

C15_Witness ==
    /\ IsSupply
    /\ Observed("_burn")
    /\ Succeeded
    /\ ArgAmount > 0
    /\ total_supply[ArgId] > balances[last.from][ArgId]
    /\ balances # last.pre.balances
    /\ MintOf(Self, last.caller, last.from, ArgId, ArgAmount).self.balances = last.pre.balances

\* ---- C16 ----------------------------------------------------------------------
\* _burn_batch as the deployed contract runs it.
BurnBatchOf(self, caller, from, ids, amounts) ==
    IF IsSupply
    THEN Erc6909Supply__burn_batch(self, caller, from, ids, amounts)
    ELSE Erc6909__burn_batch(self, caller, from, ids, amounts)

\* C16: after a successful _mint_batch(to, ids, amounts), a
\* _burn_batch(to, ids, amounts) with the same vectors, by any caller, on the
\* storage the mint left behind succeeds and returns every balance and every
\* total_supply entry to its value from before the mint.
C16_MintBatchThenBurnBatchRestores ==
    (Observed("_mint_batch") /\ Succeeded)
        => \A c \in Account :
               LET b == BurnBatchOf(Self, c, last.to, last.ids, last.amounts)
               IN /\ IsOk(b)
                  /\ b.self.balances = last.pre.balances
                  /\ b.self.total_supply = last.pre.total_supply

C16_Witness ==
    /\ IsSupply
    /\ Observed("_mint_batch")
    /\ Succeeded
    /\ Len(last.ids) = 2
    /\ \A i \in 1..2 : last.amounts[i] > 0
    /\ last.pre.total_supply[last.ids[1]] > 0
    /\ total_supply # last.pre.total_supply
    /\ BurnBatchOf(Self, last.caller, last.to, last.ids, last.amounts).self.total_supply
           = last.pre.total_supply

\* ---- C17 ----------------------------------------------------------------------
\* C17 as stated: _mint_batch and _burn_batch with len(ids) # len(amounts) fail
\* with InvalidArrayLength(len(ids), len(amounts)), change nothing and emit no
\* event.
C17_MismatchedLengths_Original ==
    ((Observed("_mint_batch") \/ Observed("_burn_batch"))
         /\ Len(last.ids) # Len(last.amounts))
        => /\ last.res = InvalidArrayLength(Len(last.ids), Len(last.amounts))
           /\ StorageUnchanged
           /\ log = <<>>

\* C17 amended: _mint_batch to a non-zero receiver and _burn_batch from a
\* non-zero owner with len(ids) # len(amounts) fail with
\* InvalidArrayLength(len(ids), len(amounts)), change nothing and emit no
\* event.
C17_MismatchedLengths ==
    (/\ \/ Observed("_mint_batch") /\ last.to # ZERO
        \/ Observed("_burn_batch") /\ last.from # ZERO
     /\ Len(last.ids) # Len(last.amounts))
        => /\ last.res = InvalidArrayLength(Len(last.ids), Len(last.amounts))
           /\ StorageUnchanged
           /\ log = <<>>

C17_Witness ==
    /\ Observed("_burn_batch")
    /\ last.from # ZERO
    /\ Len(last.ids) = 2
    /\ Len(last.amounts) = 1
    /\ last.amounts[1] > 0
    /\ last.pre.balances[last.from][last.ids[1]] >= last.amounts[1]
    /\ last.res = InvalidArrayLength(2, 1)

\* ---- C18 ----------------------------------------------------------------------
\* The observed invocation went through _update.
ThroughUpdate ==
    last.op \in {"transfer", "transfer_from", "_mint", "_mint_batch", "_burn", "_burn_batch"}

C19_EventCallerIsInvoker ==
    (ThroughUpdate /\ Succeeded)
        => /\ log # <<>>
           /\ \A i \in 1..Len(log) :
                  /\ log[i].event \in {"TransferSingle", "TransferBatch"}
                  /\ log[i].caller = last.caller
                  /\ log[i].from = last.from
           /\ (Observed("_mint") \/ Observed("_mint_batch")) => last.from = ZERO

C19_Witness ==
    /\ ~IsSupply
    /\ Observed("transfer_from")
    /\ Succeeded
    /\ ArgAmount > 0
    /\ last.caller # last.from
    /\ log[1].caller = last.caller
    /\ log[1].from = last.from

\* ---- C20 ----------------------------------------------------------------------
\* C20: on the supply extension a _mint to a non-zero receiver whose amount
\* fits the receiver's balance but would take total_supply[id] above U256_MAX
\* panics with the total_supply overflow message and changes nothing; a mint
\* that succeeds never takes a total_supply entry above U256_MAX, so no entry
\* wraps.
C20_SupplyOverflowPanics ==
    IsSupply =>
        /\ (/\ Observed("_mint")
            /\ last.to # ZERO
            /\ ~AddOverflows(last.pre.balances[last.to][ArgId], ArgAmount)
            /\ AddOverflows(last.pre.total_supply[ArgId], ArgAmount))
               => /\ last.res = [tag |-> "Panic",
                                 msg |-> "should not exceed U256::MAX for total_supply"]
                  /\ StorageUnchanged
                  /\ log = <<>>
        /\ ((Observed("_mint") \/ Observed("_mint_batch")) /\ Succeeded)
               => \A id \in TokenId :
                      last.pre.total_supply[id] + AmountFor(last.ids, last.amounts, id)
                          <= U256_MAX

C20_Witness ==
    /\ IsSupply
    /\ Observed("_mint")
    /\ last.res = [tag |-> "Panic", msg |-> "should not exceed U256::MAX for total_supply"]
    /\ last.pre.balances[last.to][ArgId] > 0
    /\ last.pre.balances[last.to][ArgId] + ArgAmount <= U256_MAX
    /\ \E a \in Account : a # last.to /\ last.pre.balances[a][ArgId] > 0

\* ---- C21 ----------------------------------------------------------------------
\* C21: transfer, _mint, _mint_batch, _burn and _burn_batch, successful or
\* failed, leave every allowance and every operator flag as it was, and so
\* does a transfer_from whose caller is the sender or an operator of the
\* sender.
C21_TransfersKeepAuthorizations ==
    (\/ last.op \in {"transfer", "_mint", "_mint_batch", "_burn", "_burn_batch"}
     \/ Observed("transfer_from") /\ ~ConsumesAllowance)
        => /\ allowances = last.pre.allowances
           /\ operator_approvals = last.pre.operator_approvals

C21_Witness ==
    /\ ~IsSupply
    /\ Observed("transfer_from")
    /\ Succeeded
    /\ last.caller = last.from
    /\ ArgAmount > 0
    /\ last.pre.allowances[last.from][last.caller][ArgId] >= ArgAmount
    /\ allowances = last.pre.allowances

\* ---- C22 ----------------------------------------------------------------------
\* The authorization step of transfer_from lets the call through: the caller
\* is the sender, an operator of the sender, or holds an allowance that covers
\* the amount.
AuthorizationPasses ==
    \/ ~ConsumesAllowance
    \/ last.pre.allowances[last.from][last.caller][ArgId] >= ArgAmount

\* C22 as stated: transfer and transfer_from with receiver = ZERO (and a
\* non-zero sender) fail with InvalidReceiver(ZERO), transfer_from with
\* sender = ZERO fails with InvalidSender(ZERO), for every caller and state,
\* and nothing changes.
C22_ZeroEndpointsRejected_Original ==
    /\ ((Observed("transfer") \/ Observed("transfer_from"))
            /\ last.to = ZERO /\ last.from # ZERO)
           => (last.res = InvalidReceiver(ZERO) /\ StorageUnchanged)
    /\ (Observed("transfer_from") /\ last.from = ZERO)
           => (last.res = InvalidSender(ZERO) /\ StorageUnchanged)

\* C22 amended: transfer with receiver = ZERO fails with InvalidReceiver(ZERO).
\* A transfer_from that passes the authorization step fails with
\* InvalidSender(ZERO) when sender = ZERO and with InvalidReceiver(ZERO) when
\* receiver = ZERO and the sender is not; one that does not pass it fails with
\* InsufficientAllowance or one of these two errors.  In every case nothing
\* changes and no event is emitted.
C22_ZeroEndpointsRejected ==
    /\ (Observed("transfer") /\ last.to = ZERO)
           => (last.res = InvalidReceiver(ZERO) /\ StorageUnchanged /\ log = <<>>)
    /\ (Observed("transfer_from") /\ (last.from = ZERO \/ last.to = ZERO))
           => /\ AuthorizationPasses
                    => last.res = IF last.from = ZERO
                                  THEN InvalidSender(ZERO)
                                  ELSE InvalidReceiver(ZERO)
              /\ last.res.tag \in {"InvalidSender", "InvalidReceiver",
                                   "InsufficientAllowance"}
              /\ StorageUnchanged
              /\ log = <<>>

C22_Witness ==
    /\ ~IsSupply
    /\ Observed("transfer_from")
    /\ last.from # ZERO
    /\ last.to = ZERO
    /\ ConsumesAllowance
    /\ ArgAmount > 0
    /\ last.pre.allowances[last.from][last.caller][ArgId] >= ArgAmount
    /\ last.res = InvalidReceiver(ZERO)
    /\ allowances = last.pre.allowances

\* ---- C23 ----------------------------------------------------------------------
\* The interfaces the deployed contract claims.
ClaimedInterfaces ==
    IF IsSupply
    THEN {IErc6909Supply_interface_id, IErc6909_interface_id, IErc165_interface_id}
    ELSE {IErc6909_interface_id, IErc165_interface_id}

\* C23: supports_interface(x) returns true exactly when x is the identifier of
\* IErc6909 or IErc165 on the base ledger, and of IErc6909Supply, IErc6909 or
\* IErc165 on the supply extension; 0xffffffff and 0x12345678 yield false on
\* both; the answer does not depend on the ledger state and the call changes
\* nothing.
C23_SupportsInterfaceIffClaimed ==
    Observed("supports_interface")
        => /\ Succeeded
           /\ last.res.value = (last.interface_id \in ClaimedInterfaces)
           /\ last.interface_id \in {<<255, 255, 255, 255>>, <<18, 52, 86, 120>>}
                  => last.res.value = FALSE
           /\ (~IsSupply /\ last.interface_id = IErc6909Supply_interface_id)
                  => last.res.value = FALSE
           /\ StorageUnchanged

C23_Witness ==
    /\ IsSupply
    /\ Observed("supports_interface")
    /\ last.interface_id = IErc6909_interface_id
    /\ last.res.value = TRUE
    /\ \E a \in Account, id \in TokenId : balances[a][id] > 0

\* ---- C24 ----------------------------------------------------------------------
\* C24: the computed identifiers are 0x0f632fb3 for IErc6909, 0xbd85b039 for
\* IErc6909Supply and 0x01ffc9a7 for IErc165, and these are the only
\* identifiers supports_interface answers true to.
C24_InterfaceIdValues ==
    /\ IErc6909_interface_id = <<15, 99, 47, 179>>
    /\ IErc6909Supply_interface_id = <<189, 133, 176, 57>>
    /\ IErc165_interface_id = <<1, 255, 201, 167>>
    /\ (Observed("supports_interface") /\ last.res.value)
           => last.interface_id \in {<<15, 99, 47, 179>>, <<189, 133, 176, 57>>,
                                     <<1, 255, 201, 167>>}

C24_Witness ==
    /\ ~IsSupply
    /\ Observed("supports_interface")
    /\ last.interface_id = <<15, 99, 47, 179>>
    /\ last.res.value = TRUE

\* ---- C25 ----------------------------------------------------------------------
\* C25: a successful transfer or transfer_from emits the event
\* Transfer(caller, sender, receiver, id, amount).
C25_TransferEmitsTransferEvent ==
    ((Observed("transfer") \/ Observed("transfer_from")) /\ Succeeded)
        => log = <<Transfer_event(last.caller, last.from, last.to, ArgId, ArgAmount)>>

\* ---- C26 ----------------------------------------------------------------------
\* The observed invocation is one of the read-only methods of the ledger.
IsRead == last.op \in {"balance_of", "allowance", "is_operator", "total_supply"}

\* C26: balance_of, allowance, is_operator and total_supply never fail, change
\* nothing and emit nothing; they return the stored value, which is 0 / false
\* for every key no call can have written (the zero address as owner or
\* spender) and for every key while the storage is still as constructed.
C26_ReadsReturnDefaults ==
    IsRead
        => /\ Succeeded
           /\ StorageUnchanged
           /\ log = <<>>
           /\ Observed("balance_of") =>
                  /\ last.res.value = balances[last.from][ArgId]
                  /\ (last.from = ZERO \/ steps = 0) => last.res.value = 0
           /\ Observed("allowance") =>
                  /\ last.res.value = allowances[last.from][last.to][ArgId]
                  /\ (last.from = ZERO \/ last.to = ZERO \/ steps = 0)
                         => last.res.value = 0
           /\ Observed("is_operator") =>
                  /\ last.res.value = operator_approvals[last.from][last.to]
                  /\ (last.from = ZERO \/ last.to = ZERO \/ steps = 0)
                         => last.res.value = FALSE
           /\ Observed("total_supply") =>
                  /\ last.res.value = total_supply[ArgId]
                  /\ steps = 0 => last.res.value = 0

C26_Witness ==
    /\ IsSupply
    /\ Observed("total_supply")
    /\ steps = 0
    /\ last.res.value = 0
    /\ \A a \in Address : balances[a][ArgId] = 0

\* ---- C27 ----------------------------------------------------------------------
\* The same call on the contained base ledger, from the storage the observed
\* invocation started from.
OnBaseLedger ==
    CASE Observed("transfer") ->
             Erc6909_transfer(last.pre, last.caller, last.to, ArgId, ArgAmount)
      [] Observed("approve") ->
             Erc6909_approve(last.pre, last.caller, last.to, ArgId, ArgAmount)
      [] Observed("set_operator") ->
             Erc6909_set_operator(last.pre, last.caller, last.to, last.approved)
      [] Observed("balance_of") ->
             [self |-> last.pre,
              res |-> [tag |-> "Ok",
                       value |-> Erc6909_balance_of(last.pre, last.from, ArgId)]]
      [] Observed("allowance") ->
             [self |-> last.pre,
              res |-> [tag |-> "Ok",
                       value |-> Erc6909_allowance(last.pre, last.from, last.to, ArgId)]]
      [] Observed("is_operator") ->
             [self |-> last.pre,
              res |-> [tag |-> "Ok",
                       value |-> Erc6909_is_operator(last.pre, last.from, last.to)]]

\* C27: on the supply extension transfer, approve, set_operator, balance_of,
\* allowance and is_operator return what the same call returns on the base
\* ledger and have its effect on balances, allowances, operator flags and the
\* event log; none of them, nor transfer_from, total_supply or
\* supports_interface, changes a total_supply entry, and a mint or burn
\* changes only the entries of the ids it names.
C27_SupplyDelegatesToLedger ==
    (IsSupply /\ ~Running)
        => /\ last.op \in {"transfer", "approve", "set_operator",
                           "balance_of", "allowance", "is_operator"}
                  => /\ last.res = OnBaseLedger.res
                     /\ IF IsOk(OnBaseLedger)
                        THEN /\ balances = OnBaseLedger.self.balances
                             /\ allowances = OnBaseLedger.self.allowances
                             /\ operator_approvals = OnBaseLedger.self.operator_approvals
                             /\ log = OnBaseLedger.self.log
                        ELSE StorageUnchanged /\ log = <<>>
           /\ last.op \notin {"_mint", "_mint_batch", "_burn", "_burn_batch"}
                  => total_supply = last.pre.total_supply
           /\ \A id \in TokenId :
                  total_supply[id] # last.pre.total_supply[id]
                      => \E i \in 1..Len(last.ids) : last.ids[i] = id

C27_Witness ==
    /\ IsSupply
    /\ Observed("transfer")
    /\ Succeeded
    /\ ArgAmount > 0
    /\ last.to # last.caller
    /\ balances # last.pre.balances
    /\ total_supply = last.pre.total_supply

\* ---- C28 ----------------------------------------------------------------------
\* Every sub_assign_unchecked of the burn loop of Erc6909Supply::_update, run
\* from the pair at position i, takes an amount that total_supply[id] covers
\* at that moment.
RECURSIVE BurnLoopNeverWraps(_, _, _, _)
BurnLoopNeverWraps(self, ids, amounts, i) ==
    IF i > Len(ids) \/ i > Len(amounts) THEN TRUE
    ELSE /\ self.total_supply[ids[i]] >= amounts[i]
         /\ BurnLoopNeverWraps(
                [self EXCEPT !.total_supply[ids[i]] = SubAssignUnchecked(@, amounts[i])],
                ids, amounts, i + 1)

\* C28: on the supply extension, whenever the base ledger's _update of a _burn
\* or _burn_batch from a non-zero owner succeeds, every subtraction of the
\* burn loop that follows finds total_supply[id] >= amount, also when the
\* batch names the same id more than once.
C28_SupplySubtractionNeverWraps ==
    (IsSupply /\ (Observed("_burn") \/ Observed("_burn_batch")) /\ last.from # ZERO)
        => LET base == Erc6909__update(last.pre, last.caller, last.from, ZERO,
                                       last.ids, last.amounts)
           IN IsOk(base) => /\ BurnLoopNeverWraps(base.self, last.ids, last.amounts, 1)
                            /\ Succeeded

C28_Witness ==
    /\ IsSupply
    /\ Observed("_burn_batch")
    /\ Succeeded
    /\ Len(last.ids) = 2
    /\ last.ids[1] = last.ids[2]
    /\ \A i \in 1..2 : last.amounts[i] > 0
    /\ total_supply[last.ids[1]] = 0

\* ---- C29 ----------------------------------------------------------------------
\* C29: a _burn_batch from a non-zero owner whose amounts for some id add up
\* to more than the owner holds fails with InsufficientBalance, and a
\* _mint_batch to a non-zero receiver whose amounts for some id would take the
\* balance above U256_MAX panics, wherever in the vectors the failing pair is;
\* every failed _mint_batch or _burn_batch leaves every balance, every
\* total_supply entry and the rest of the storage as before the call and emits
\* no event.
C29_FailedBatchLeavesNothing ==
    /\ ((Observed("_mint_batch") \/ Observed("_burn_batch")) /\ ~Succeeded)
           => (StorageUnchanged /\ log = <<>>)
    /\ (/\ Observed("_burn_batch")
        /\ last.from # ZERO
        /\ Len(last.ids) = Len(last.amounts)
        /\ \E id \in TokenId :
               AmountFor(last.ids, last.amounts, id) > last.pre.balances[last.from][id])
           => last.res.tag = "InsufficientBalance"
    /\ (/\ Observed("_mint_batch")
        /\ last.to # ZERO
        /\ Len(last.ids) = Len(last.amounts)
        /\ \E id \in TokenId :
               AddOverflows(last.pre.balances[last.to][id],
                            AmountFor(last.ids, last.amounts, id)))
           => last.res.tag = "Panic"

C29_Witness ==
    /\ IsSupply
    /\ Observed("_burn_batch")
    /\ Len(last.ids) = 2
    /\ Len(last.amounts) = 2
    /\ last.ids[1] # last.ids[2]
    /\ last.amounts[1] > 0
    /\ last.pre.balances[last.from][last.ids[1]] >= last.amounts[1]
    /\ last.res.tag = "InsufficientBalance"
    /\ last.res.id = last.ids[2]
    /\ balances = last.pre.balances
    /\ total_supply = last.pre.total_supply

\* ---- C30 ----------------------------------------------------------------------
\* C30: a transfer_from between non-zero addresses by a caller that is
\* neither the sender nor an operator of the sender and holds an allowance
\* below the amount fails with InsufficientAllowance, whatever the sender's
\* balance; transfer, _mint, _mint_batch, _burn and _burn_batch never return
\* InsufficientAllowance.
C30_AllowanceErrorPreempts ==
    /\ (/\ Observed("transfer_from")
        /\ last.from # ZERO
        /\ last.to # ZERO
        /\ ConsumesAllowance
        /\ last.pre.allowances[last.from][last.caller][ArgId] < ArgAmount)
           => last.res.tag = "InsufficientAllowance"
    /\ last.op \in {"transfer", "_mint", "_mint_batch", "_burn", "_burn_batch"}
           => last.res.tag # "InsufficientAllowance"

\* ---- C31 ----------------------------------------------------------------------
\* C31: an InsufficientAllowance error returned by transfer_from names the
\* caller as spender and reports the allowance the caller held before the
\* call in both of its fields, allowance and needed; needed is not the
\* requested amount.
C31_AllowanceErrorFields ==
    (Observed("transfer_from") /\ last.res.tag = "InsufficientAllowance")
        => LET current == last.pre.allowances[last.from][last.caller][ArgId]
           IN /\ last.res = InsufficientAllowance(last.caller, current, current, ArgId)
              /\ last.res.needed = last.res.allowance
              /\ last.res.needed < ArgAmount

C31_Witness ==
    /\ ~IsSupply
    /\ Observed("transfer_from")
    /\ last.res.tag = "InsufficientAllowance"
    /\ last.res.allowance > 0
    /\ last.res.needed = last.res.allowance
    /\ ArgAmount > last.res.needed

\* ---- C32 ----------------------------------------------------------------------
PanicBalances == [tag |-> "Panic", msg |-> "should not exceed U256::MAX for balances"]

\* C32: a _mint to a non-zero receiver, and a transfer or authorized
\* transfer_from between two different non-zero addresses that the sender's
\* balance covers, panics with the balances overflow message and changes
\* nothing when the credit would take balances[to][id] above U256_MAX; on the
\* supply extension too, where total_supply would overflow as well, so the
\* balance is tested first.  No balance is ever above U256_MAX.
C32_BalanceOverflowPanics ==
    /\ (/\ Observed("_mint")
        /\ last.to # ZERO
        /\ AddOverflows(last.pre.balances[last.to][ArgId], ArgAmount))
           => (last.res = PanicBalances /\ StorageUnchanged /\ log = <<>>)
    /\ (/\ Observed("transfer") \/ (Observed("transfer_from") /\ AuthorizationPasses)
        /\ last.from # ZERO
        /\ last.to # ZERO
        /\ last.from # last.to
        /\ last.pre.balances[last.from][ArgId] >= ArgAmount
        /\ AddOverflows(last.pre.balances[last.to][ArgId], ArgAmount))
           => (last.res = PanicBalances /\ StorageUnchanged /\ log = <<>>)
    /\ \A a \in Address, id \in TokenId : balances[a][id] \in U256

C32_Witness ==
    /\ IsSupply
    /\ Observed("_mint")
    /\ last.res = PanicBalances
    /\ ArgAmount > 0
    /\ AddOverflows(last.pre.total_supply[ArgId], ArgAmount)
    /\ balances[last.to][ArgId] = U256_MAX

\* ---- C33 ----------------------------------------------------------------------
\* C33: on the supply extension no transfer and no transfer_from panics, and
\* in every reachable state the balances of any two different owners of a
\* token id add up to at most U256_MAX, so a credit of what a sender holds
\* always fits the receiver's balance.
C33_SupplyTransferNeverOverflows ==
    IsSupply
        => /\ (Observed("transfer") \/ Observed("transfer_from"))
                  => last.res.tag # "Panic"
           /\ \A a \in Account, b \in Account, id \in TokenId :
                  a # b => balances[a][id] + balances[b][id] <= U256_MAX

C33_Witness ==
    /\ IsSupply
    /\ Observed("transfer")
    /\ Succeeded
    /\ ArgAmount > 0
    /\ last.to # last.caller
    /\ last.pre.balances[last.to][ArgId] > 0
    /\ balances[last.to][ArgId] = U256_MAX

\* ---- C36 ----------------------------------------------------------------------
\* C36: a _burn_batch from a non-zero owner with vectors of equal length
\* succeeds if and only if, for every id, the owner holds at least the sum of
\* the amounts listed for that id, and then lowers the balance (and on the
\* supply extension total_supply) of every id by that sum.  The pairs are
\* taken in input order against the running balance: the error names the
\* first pair the running balance does not cover, with the balance left by
\* the pairs before it.
C36_BurnBatchRunningBalance ==
    (Observed("_burn_batch") /\ last.from # ZERO /\ Len(last.ids) = Len(last.amounts))
        => LET held(id) == last.pre.balances[last.from][id]
               sum(id) == AmountFor(last.ids, last.amounts, id)
           IN /\ Succeeded <=> \A id \in TokenId : sum(id) <= held(id)
              /\ Succeeded =>
                     /\ \A id \in TokenId : balances[last.from][id] = held(id) - sum(id)
                     /\ IsSupply => \A id \in TokenId :
                            total_supply[id] = last.pre.total_supply[id] - sum(id)
              /\ (Len(last.ids) >= 1 /\ last.amounts[1] > held(last.ids[1]))
                     => last.res = InsufficientBalance(last.from, held(last.ids[1]),
                                                       last.amounts[1], last.ids[1])
              /\ (/\ Len(last.ids) = 2
                  /\ last.amounts[1] <= held(last.ids[1])
                  /\ last.amounts[2] > held(last.ids[2])
                                       - (IF last.ids[1] = last.ids[2]
                                          THEN last.amounts[1] ELSE 0))
                     => last.res = InsufficientBalance(
                                       last.from,
                                       held(last.ids[2]) - (IF last.ids[1] = last.ids[2]
                                                            THEN last.amounts[1] ELSE 0),
                                       last.amounts[2], last.ids[2])

C36_Witness ==
    /\ Observed("_burn_batch")
    /\ Len(last.ids) = 2
    /\ Len(last.amounts) = 2
    /\ last.ids[1] = last.ids[2]
    /\ last.amounts[1] > 0
    /\ last.amounts[2] <= last.pre.balances[last.from][last.ids[2]]
    /\ last.res = InsufficientBalance(
                      last.from,
                      last.pre.balances[last.from][last.ids[1]] - last.amounts[1],
                      last.amounts[2], last.ids[2])

C38_AuthorizationWritesOneEntry ==
    /\ (Observed("transfer_from") /\ Succeeded /\ ConsumesAllowance)
           => /\ \A o \in Address, s \in Address, i \in TokenId :
                     <<o, s, i>> # <<last.from, last.caller, ArgId>>
                         => allowances[o][s][i] = last.pre.allowances[o][s][i]
              /\ operator_approvals = last.pre.operator_approvals
    /\ (Observed("approve") /\ Succeeded)
           => /\ \A o \in Address, s \in Address, i \in TokenId :
                     <<o, s, i>> # <<last.caller, last.to, ArgId>>
                         => allowances[o][s][i] = last.pre.allowances[o][s][i]
              /\ operator_approvals = last.pre.operator_approvals
              /\ balances = last.pre.balances
              /\ total_supply = last.pre.total_supply
    /\ (Observed("set_operator") /\ Succeeded)
           => /\ \A o \in Address, s \in Address :
                     <<o, s>> # <<last.caller, last.to>>
                         => operator_approvals[o][s] = last.pre.operator_approvals[o][s]
              /\ allowances = last.pre.allowances
              /\ balances = last.pre.balances
              /\ total_supply = last.pre.total_supply

C38_Witness ==
    /\ Observed("approve")
    /\ Succeeded
    /\ ArgAmount > 0
    /\ \E i \in TokenId :
           /\ i # ArgId
           /\ last.pre.allowances[last.caller][last.to][i] > 0
           /\ last.pre.allowances[last.caller][last.to][i] # ArgAmount
           /\ allowances[last.caller][last.to][i] = last.pre.allowances[last.caller][last.to][i]

\* ---- C34 ------------------------------------------------------------------
\* The statement as the specification words it, for every owner and spender,
\* the owner itself included: while the spender has not been an operator of
\* the owner since the owner's last approve(spender, id, _), the amounts the
\* spender moved out of the owner's balance by transfer_from since then add
\* up to at most the amount of that approve (zero when there was none).
C34_SpenderMovesAtMostAllowance_Original ==
    ~ghost.was_operator => ghost.moved <= ghost.granted

\* C34: on the base ledger, for a spender that is not the owner: while the
\* spender has not been an operator of the owner since the owner's last
\* approve(spender, id, _), the amounts of token id the spender moved out of
\* the owner's balance by transfer_from since that approve add up to at most
\* the amount of that approve (zero when the owner never approved), and the
\* stored allowance is exactly what is left of it.
C34_SpenderMovesAtMostAllowance ==
    (ghost.owner # ghost.spender /\ ~ghost.was_operator)
        => /\ ghost.moved <= ghost.granted
           /\ allowances[ghost.owner][ghost.spender][ghost.id]
                  = ghost.granted - ghost.moved

\* An allowance of 2 used up by two transfer_from calls of 1 each, by a
\* spender that is not the owner and never was its operator.
C34_Witness ==
    /\ ghost.owner # ghost.spender
    /\ ~ghost.was_operator
    /\ ghost.granted = 2
    /\ ghost.moved = 2
    /\ Observed("transfer_from")
    /\ Succeeded
    /\ last.caller = ghost.spender
    /\ last.from = ghost.owner
    /\ ArgAmount = 1
    /\ allowances[ghost.owner][ghost.spender][ghost.id] = 0

\* ---- C35 ------------------------------------------------------------------
\* A transfer_from of the watched token by the watched spender out of the
\* watched owner's balance, for more than the allowance stored before it.
OverAllowanceBySpender ==
    /\ Observed("transfer_from")
    /\ last.caller = ghost.spender
    /\ last.from = ghost.owner
    /\ ArgAmount > last.pre.allowances[ghost.owner][ghost.spender][ArgId]

\* An operator flag differs from its value before the recorded call only
\* when that call is a successful set_operator by the flag's owner for the
\* flag's spender.
OperatorFlagsChangeOnlyBySetOperator ==
    last.op # "none" =>
        \A o \in Address, s \in Address :
            operator_approvals[o][s] # last.pre.operator_approvals[o][s]
                => /\ Observed("set_operator")
                   /\ Succeeded
                   /\ last.caller = o
                   /\ last.to = s

\* The statement as the specification words it, for every owner and spender,
\* the owner itself included.
C35_RevokedOperatorNeedsAllowance_Original ==
    /\ (ghost.revoked /\ OverAllowanceBySpender)
           => last.res.tag = "InsufficientAllowance"
    /\ OperatorFlagsChangeOnlyBySetOperator

\* C35: on the base ledger, for a spender that is not the owner: once the
\* owner's latest set_operator for the spender was set_operator(spender,
\* false), the flag is false and every transfer_from by the spender out of
\* the owner's balance for more than the stored allowance fails with
\* InsufficientAllowance; and no operation changes an operator flag except a
\* successful set_operator by the flag's owner.
C35_RevokedOperatorNeedsAllowance ==
    /\ (ghost.owner # ghost.spender /\ ghost.revoked)
           => /\ ~operator_approvals[ghost.owner][ghost.spender]
              /\ OverAllowanceBySpender
                     => last.res.tag = "InsufficientAllowance"
    /\ OperatorFlagsChangeOnlyBySetOperator

\* The spender was an operator of the owner, was revoked, and then asks for
\* an amount the owner holds but never approved.
C35_Witness ==
    /\ ghost.owner # ghost.spender
    /\ ghost.was_operator
    /\ ghost.revoked
    /\ OverAllowanceBySpender
    /\ ArgAmount <= last.pre.balances[ghost.owner][ArgId]
    /\ last.res.tag = "InsufficientAllowance"
    /\ StorageUnchanged

====
